---- MODULE Spec2Model ----
(***************************************************************************)
(* A model of src/ProcessEEG.py (class EEGVisualizer): the capture         *)
(* callback that stores the latest block, the timer-driven update that     *)
(* notch-filters the block, takes its magnitude spectrum and averages it    *)
(* over six frequency bands, the two filter designers, and run.             *)
(*                                                                         *)
(* Numbers.  The program computes in IEEE floating point.  The model uses  *)
(* integers: a sample is an integer, a filter coefficient or a twiddle     *)
(* factor is an integer in units of 1/CoefScale, and a product with a      *)
(* coefficient is divided by CoefScale (to the nearest).  The one non-finite  *)
(* float the claims need, NaN, is the integer NaN below, which every       *)
(* arithmetic operator tests for before it computes.  A band average is    *)
(* kept as the exact fraction num/den that np.mean forms, so 0/0 is the    *)
(* NaN np.mean returns for an empty selection.                              *)
(***************************************************************************)
EXTENDS Integers, Sequences, FiniteSets

VARIABLES
    pc,            \* main thread: "init" (constructed), "exec" (inside app.exec_), "done" (run returned)
    streamActive,  \* the sd.InputStream has been started and not stopped
    timerActive,   \* the QTimer started by __init__ has not been stopped
    fft_size,      \* self.fft_size
    timeSignal,    \* identity of the array self.timeSignal refers to: 0 = the np.zeros array, n = the view made by the n-th callback
    slotMem,       \* the samples now in the memory that self.timeSignal refers to
    cap,           \* the capture period the device is writing
    nCallbacks,    \* number of audio_callback calls so far
    upc,           \* update's position: "idle", or "checked" after the length test of line 96
    filtered,      \* update's local: the notch-filtered block
    fft_data,      \* update's local: the magnitude spectrum
    timeCurve,     \* data last given to timeCurve.setData
    freqBars,      \* heights last given to freqBars.setOpts
    avgBars,       \* heights last given to avgBars.setOpts
    updateResult,  \* how the last update call ended
    designed,      \* what the last create_notch_filter / create_bandpass call did
    signal,        \* a signal to be filtered block by block
    sigPos,        \* number of its samples already filtered
    streamOut,     \* the outputs of those apply_filter calls, concatenated
    readBlock,     \* history: the samples the last update call read
    readRef,       \* history: the array identity the last update call read
    prevRead,      \* history: the read and the outputs of the update call before the last
    cbSinceRead,   \* history: audio_callback ran after the last update read
    delivered      \* history: the blocks audio_callback has been handed

vars == << pc, streamActive, timerActive, fft_size, timeSignal, slotMem, cap,
           nCallbacks, upc, filtered, fft_data, timeCurve, freqBars, avgBars,
           updateResult, designed, signal, sigPos, streamOut, readBlock,
           readRef, prevRead, cbSinceRead, delivered >>

-----------------------------------------------------------------------------
(* Program constants, set in EEGVisualizer.__init__.                        *)

timeScale == 50
alphaCenter == 12
alphaBandwidth == 2
betaCenter == 24
betaBandwidth == 2
timeLength == 240
fs == 256
FFT_SIZE == 256
notch_freq == 60

(* Bounds of the model.                                                     *)

MaxDeliveries == 3  \* capture periods the device delivers in one run
FillSteps == 2      \* pieces in which the device writes one period into its buffer
MaxSigLen == 3      \* length of a signal filtered block by block
ExtraLen == 1       \* how far a test block exceeds the transform size
Amp == 16           \* amplitude unit of the input samples

(* The float NaN, and the unit of the fixed-point coefficients.             *)

NaN == -1000000000
CoefScale == 1024

-----------------------------------------------------------------------------
(* Floating-point arithmetic, with NaN propagating through every operation. *)

IsNaN(x) == x = NaN

FAdd(x, y) == IF IsNaN(x) \/ IsNaN(y) THEN NaN ELSE x + y

FMul(c, x) == IF IsNaN(x) THEN NaN ELSE c * x

(* x / d, rounded to the nearest integer *)
Round(x, d) == (x + d \div 2) \div d

FDiv(x, d) == IF IsNaN(x) THEN NaN ELSE Round(x, d)

HasNaN(s) == \E i \in 1..Len(s) : IsNaN(s[i])

Min(p, q) == IF p < q THEN p ELSE q

(* cos(2 pi j / 256) in units of 1/CoefScale: the twiddle factors of the    *)
(* transform; sin(t) = cos(t - pi/2).                                       *)
CosTable ==
    <<  1024,  1024,  1023,  1021,  1019,  1016,  1013,  1009,  1004,   999,   993,   987,   980,   972,   964,   955,
         946,   936,   926,   915,   903,   891,   878,   865,   851,   837,   822,   807,   792,   775,   759,   742,
         724,   706,   688,   669,   650,   630,   610,   590,   569,   548,   526,   505,   483,   460,   438,   415,
         392,   369,   345,   321,   297,   273,   249,   224,   200,   175,   150,   125,   100,    75,    50,    25,
           0,   -25,   -50,   -75,  -100,  -125,  -150,  -175,  -200,  -224,  -249,  -273,  -297,  -321,  -345,  -369,
        -392,  -415,  -438,  -460,  -483,  -505,  -526,  -548,  -569,  -590,  -610,  -630,  -650,  -669,  -688,  -706,
        -724,  -742,  -759,  -775,  -792,  -807,  -822,  -837,  -851,  -865,  -878,  -891,  -903,  -915,  -926,  -936,
        -946,  -955,  -964,  -972,  -980,  -987,  -993,  -999, -1004, -1009, -1013, -1016, -1019, -1021, -1023, -1024,
       -1024, -1024, -1023, -1021, -1019, -1016, -1013, -1009, -1004,  -999,  -993,  -987,  -980,  -972,  -964,  -955,
        -946,  -936,  -926,  -915,  -903,  -891,  -878,  -865,  -851,  -837,  -822,  -807,  -792,  -775,  -759,  -742,
        -724,  -706,  -688,  -669,  -650,  -630,  -610,  -590,  -569,  -548,  -526,  -505,  -483,  -460,  -438,  -415,
        -392,  -369,  -345,  -321,  -297,  -273,  -249,  -224,  -200,  -175,  -150,  -125,  -100,   -75,   -50,   -25,
           0,    25,    50,    75,   100,   125,   150,   175,   200,   224,   249,   273,   297,   321,   345,   369,
         392,   415,   438,   460,   483,   505,   526,   548,   569,   590,   610,   630,   650,   669,   688,   706,
         724,   742,   759,   775,   792,   807,   822,   837,   851,   865,   878,   891,   903,   915,   926,   936,
         946,   955,   964,   972,   980,   987,   993,   999,  1004,  1009,  1013,  1016,  1019,  1021,  1023,  1024 >>

Cos256(j) == CosTable[(j % 256) + 1]

Sin256(j) == Cos256(j - 64)

-----------------------------------------------------------------------------
(* Filter design: create_notch_filter and create_bandpass hand their        *)
(* normalised frequencies to scipy.signal and return what it returns; the   *)
(* source has no check of its own and defines no error type.  A design is   *)
(* the set of outcomes the call can have: "ValueError" (scipy rejects the   *)
(* frequencies) or "coefficients" (a pair (b, a) is returned).              *)

(* signal.iirnotch(w0, Q) with w0 = num/den: it rejects only w0 > 1 and    *)
(* w0 < 0.                                                                  *)
iirnotch(num, den) ==
    IF num > den \/ num < 0 THEN {"ValueError"} ELSE {"coefficients"}

(* signal.butter(4, [low, high], btype='band') with low = lnum/den and     *)
(* high = hnum/den: it rejects an edge outside 0 < Wn < 1; for edges inside *)
(* that are not increasing, the scipy releases differ (an error, or the    *)
(* coefficients of a degenerate filter).                                    *)
butter(lnum, hnum, den) ==
    IF ~(0 < lnum /\ lnum < den /\ 0 < hnum /\ hnum < den) THEN {"ValueError"}
    ELSE IF lnum >= hnum THEN {"ValueError", "coefficients"}
    ELSE {"coefficients"}

(* freq = notch_freq / (0.5 * fs) = 2 * notch_freq / fs                      *)
create_notch_filter(f, rate) == iirnotch(2 * f, rate)

(* low, high = (center -+ bandwidth/2) / (0.5 * fs) = (2*center -+ bandwidth) / fs *)
create_bandpass(center, bandwidth, rate) ==
    butter(2 * center - bandwidth, 2 * center + bandwidth, rate)

(* The pair iirnotch returns for w0 = 60/128, Q = 30 (self.notch_filter):   *)
(* b = g*[1, -2cos(pi w0), 1], a = [1, -2g cos(pi w0), 2g - 1] with         *)
(* g = 1/(1 + tan(pi w0 / (2 Q))), here in units of 1/CoefScale.            *)
notch_filter == [b |-> <<999, -196, 999>>, a |-> <<1024, -196, 975>>]

-----------------------------------------------------------------------------
(* signal.lfilter(b, a, x) without zi: the direct-form II transposed        *)
(* recursion, started from a zero delay line at every call.                 *)
(*     y[n]  = (b0 x[n] + z1) / a0                                          *)
(*     z1'   = b1 x[n] - a1 y[n] + z2                                       *)
(*     z2'   = b2 x[n] - a2 y[n]                                            *)
(* lfilterOne is one sample, lfilterRun the samples lo..hi from delay line  *)
(* z; both return the delay line they leave and the outputs.  (A value     *)
(* bound by "v \in {e}" is computed once.)                                  *)

lfilterOne(b, a, xn, z) ==
    CHOOSE r \in {[z |-> << FAdd(FAdd(FMul(b[2], xn), z[2]), FMul(-a[2], yn)),
                            FAdd(FMul(b[3], xn), FMul(-a[3], yn)) >>,
                   y |-> <<yn>>] :
                  yn \in {FDiv(FAdd(FMul(b[1], xn), z[1]), a[1])}} : TRUE

RECURSIVE lfilterRun(_, _, _, _, _, _)
lfilterRun(b, a, x, lo, hi, z) ==
    IF lo > hi THEN [z |-> z, y |-> <<>>]
    ELSE IF lo = hi THEN lfilterOne(b, a, x[lo], z)
    ELSE CHOOSE res \in
           UNION {{[z |-> right.z, y |-> left.y \o right.y] :
                     right \in {lfilterRun(b, a, x, (lo + hi) \div 2 + 1, hi, left.z)}} :
                  left \in {lfilterRun(b, a, x, lo, (lo + hi) \div 2, z)}} : TRUE

lfilter(b, a, x) == lfilterRun(b, a, x, 1, Len(x), <<0, 0>>).y

(* EEGVisualizer.apply_filter *)
apply_filter(data, filter_coeffs) == lfilter(filter_coeffs.b, filter_coeffs.a, data)

-----------------------------------------------------------------------------
(* np.abs(np.fft.rfft(x, n)): x cut or zero-padded to n samples, the        *)
(* discrete Fourier transform of those (radix 2, n a power of two dividing  *)
(* 256), and the magnitudes of its bins 0..n/2.                             *)

FftInput(x, n) ==
    IF Len(x) >= n THEN SubSeq(x, 1, n)
    ELSE x \o [i \in 1..(n - Len(x)) |-> 0]

(* Bin k-1 of the size-n transform from the two half-size transforms E (of  *)
(* the even-indexed samples) and O (odd): E[j] + w^(k-1) O[j], where        *)
(* w = exp(-2 pi i / n).  A complex number is <<re, im>>.                    *)
Butterfly(E, O, n, k) ==
    LET j == ((k - 1) % (n \div 2)) + 1
        c == Cos256((k - 1) * (256 \div n))
        s == Sin256((k - 1) * (256 \div n))
    IN  << E[j][1] + Round(c * O[j][1] + s * O[j][2], CoefScale),
           E[j][2] + Round(c * O[j][2] - s * O[j][1], CoefScale) >>

RECURSIVE fft(_, _)
fft(x, n) ==
    IF n = 1 THEN << x[1] >>
    ELSE CHOOSE X \in
           {SubSeq([k \in 1..n |-> Butterfly(EO[1], EO[2], n, k)], 1, n) :
              EO \in {<< fft([i \in 1..(n \div 2) |-> x[2 * i - 1]], n \div 2),
                         fft([i \in 1..(n \div 2) |-> x[2 * i]], n \div 2) >>}} : TRUE

RECURSIVE ISqrtIter(_, _, _)
ISqrtIter(v, lo, hi) ==
    IF lo >= hi THEN lo
    ELSE CHOOSE r \in {IF mid * mid <= v THEN ISqrtIter(v, mid, hi)
                       ELSE ISqrtIter(v, lo, mid - 1) :
                       mid \in {(lo + hi + 1) \div 2}} : TRUE

(* np.abs of a complex number *)
Hypot(re, im) == ISqrtIter(re * re + im * im, 0, 46340)

(* The magnitudes of the first m bins of the transform of xin (n samples). *)
Magnitudes(xin, n, m) ==
    IF HasNaN(xin) THEN [k \in 1..m |-> NaN]
    ELSE CHOOSE mag \in
           {SubSeq([k \in 1..m |-> Hypot(X[k][1], X[k][2])], 1, m) :
              X \in {fft([i \in 1..n |-> << xin[i], 0 >>], n)}} : TRUE

(* np.abs(np.fft.fft(x, n)): all n bins (not what update calls). *)
fft_abs(x, n) ==
    CHOOSE r \in {Magnitudes(xin, n, n) : xin \in {FftInput(x, n)}} : TRUE

(* np.abs(np.fft.rfft(x, n)): the n/2 + 1 bins of the non-negative frequencies. *)
rfft_abs(x, n) ==
    CHOOSE r \in {Magnitudes(xin, n, n \div 2 + 1) : xin \in {FftInput(x, n)}} : TRUE

(* np.fft.rfftfreq(n, 1/rate): bin k-1 lies at (k-1) * rate / n Hz (n divides rate). *)
rfftfreq(n, rate) == [k \in 1..(n \div 2 + 1) |-> (k - 1) * (rate \div n)]

(* self.freqs *)
freqs == rfftfreq(fft_size, fs)

-----------------------------------------------------------------------------
(* Band averages (update, lines 110-123). *)

bands == << <<0, 4>>, <<4, 8>>, <<8, 12>>, <<12, 20>>, <<20, 30>>, <<30, 45>> >>

(* The mask without the upper edge: low <= f < high. *)
BandMaskHalfOpen(f, low, high) == [k \in 1..Len(f) |-> f[k] >= low /\ f[k] < high]

(* mask = (self.freqs >= low) & (self.freqs <= high) *)
BandMask(f, low, high) == [k \in 1..Len(f) |-> f[k] >= low /\ f[k] <= high]

(* The sum of the selected entries of data. *)
MaskedSum(data, mask) ==
    LET S[r \in Nat \X Nat] ==
            IF r[1] > r[2] THEN 0
            ELSE IF r[1] = r[2] THEN (IF mask[r[1]] THEN data[r[1]] ELSE 0)
            ELSE FAdd(S[<< r[1], (r[1] + r[2]) \div 2 >>],
                      S[<< (r[1] + r[2]) \div 2 + 1, r[2] >>])
    IN  S[<< 1, Len(mask) >>]

(* np.mean(data[mask]): the sum of the selected entries over their number;  *)
(* 0/0, the mean of no entries, is NaN.                                     *)
MaskedMean(data, mask) ==
    [num |-> MaskedSum(data, mask),
     den |-> Cardinality({k \in 1..Len(mask) : mask[k]})]

IsNaNMean(q) == q.den = 0 \/ IsNaN(q.num)

avg_heights(f, data) ==
    [i \in 1..Len(bands) |-> MaskedMean(data, BandMask(f, bands[i][1], bands[i][2]))]

-----------------------------------------------------------------------------
(* The state after EEGVisualizer.__init__. *)

Zeros(n) == [i \in 1..n |-> 0]

NoRead == [valid |-> FALSE, block |-> <<>>, out |-> <<>>]

CapIdle == [active |-> FALSE, alias |-> FALSE, pos |-> 0]

Design(fn, args, outcome) == [fn |-> fn, args |-> args, outcome |-> outcome]

(* Everything __init__ sets except the block and the transform size. *)
Constructed ==
    /\ pc = "init"
    /\ streamActive = FALSE
    /\ timerActive = TRUE
    /\ timeSignal = 0
    /\ cap = CapIdle
    /\ nCallbacks = 0
    /\ upc = "idle"
    /\ filtered = <<>>
    /\ fft_data = <<>>
    /\ timeCurve = <<>>
    /\ freqBars = Zeros(30)
    /\ avgBars = [i \in 1..Len(bands) |-> [num |-> 0, den |-> 1]]
    /\ updateResult = "none"
    /\ \E o \in create_bandpass(betaCenter, betaBandwidth, fs) :
           designed = Design("create_bandpass", <<betaCenter, betaBandwidth, fs>>, o)
    /\ signal = <<>>
    /\ sigPos = 0
    /\ streamOut = <<>>
    /\ readBlock = <<>>
    /\ readRef = 0
    /\ prevRead = NoRead
    /\ cbSinceRead = FALSE

Init ==
    /\ Constructed
    /\ fft_size = FFT_SIZE
    /\ slotMem = Zeros(timeLength)
    /\ delivered = {Zeros(timeLength)}

-----------------------------------------------------------------------------
(* run (lines 125-128): show the window, start the stream, enter the event  *)
(* loop.                                                                    *)
run ==
    /\ pc = "init"
    /\ pc' = "exec"
    /\ streamActive' = TRUE
    /\ UNCHANGED << timerActive, fft_size, timeSignal, slotMem, cap, nCallbacks,
                    upc, filtered, fft_data, timeCurve, freqBars, avgBars,
                    updateResult, designed, signal, sigPos, streamOut,
                    readBlock, readRef, prevRead, cbSinceRead, delivered >>

(* app.exec_() returns (the window is closed) and run returns: nothing      *)
(* stops the stream or the timer.  The event loop ends between two events,  *)
(* so not inside update.                                                    *)
run_returns ==
    /\ pc = "exec"
    /\ upc = "idle"
    /\ pc' = "done"
    /\ UNCHANGED << streamActive, timerActive, fft_size, timeSignal, slotMem,
                    cap, nCallbacks, upc, filtered, fft_data, timeCurve,
                    freqBars, avgBars, updateResult, designed, signal, sigPos,
                    streamOut, readBlock, readRef, prevRead, cbSinceRead,
                    delivered >>

-----------------------------------------------------------------------------
(* The capture device (sd.InputStream, lines 63-68).  It writes each period *)
(* of timeLength samples into a buffer of its own and then calls            *)
(* audio_callback with indata, an array over that buffer.  audio_callback   *)
(* keeps indata[:, 0], a view of the buffer and not a copy, so the samples  *)
(* self.timeSignal shows change when the device writes into that buffer     *)
(* again.  Which buffer the device writes next is its own choice: the one   *)
(* the view is on (alias) or another.                                       *)

(* The samples of the d-th period: the constant d * Amp. *)
DeviceBlock(d) == [i \in 1..timeLength |-> d * Amp]

ChunkLen == timeLength \div FillSteps

CaptureBegin ==
    /\ streamActive
    /\ ~cap.active
    /\ nCallbacks < MaxDeliveries
    /\ \E alias \in BOOLEAN :
          /\ alias => timeSignal # 0
          /\ cap' = [active |-> TRUE, alias |-> alias, pos |-> 0]
    /\ UNCHANGED << pc, streamActive, timerActive, fft_size, timeSignal, slotMem,
                    nCallbacks, upc, filtered, fft_data, timeCurve, freqBars,
                    avgBars, updateResult, designed, signal, sigPos, streamOut,
                    readBlock, readRef, prevRead, cbSinceRead, delivered >>

CaptureWrite ==
    /\ cap.active
    /\ cap.pos < timeLength
    /\ \E p \in {Min(cap.pos + ChunkLen, timeLength)} :
          /\ cap' = [cap EXCEPT !.pos = p]
          /\ slotMem' = IF cap.alias
                        THEN [i \in 1..timeLength |->
                                 IF i <= p THEN (nCallbacks + 1) * Amp ELSE slotMem[i]]
                        ELSE slotMem
    /\ UNCHANGED << pc, streamActive, timerActive, fft_size, timeSignal,
                    nCallbacks, upc, filtered, fft_data, timeCurve, freqBars,
                    avgBars, updateResult, designed, signal, sigPos, streamOut,
                    readBlock, readRef, prevRead, cbSinceRead, delivered >>

(* The period is complete: the device has a block to hand over. *)
BlockReady == cap.active /\ cap.pos = timeLength

(* A callback that waits until update is not running. *)
audio_callback_waits ==
    /\ BlockReady
    /\ upc = "idle"
    /\ timeSignal' = nCallbacks + 1
    /\ slotMem' = DeviceBlock(nCallbacks + 1)
    /\ nCallbacks' = nCallbacks + 1
    /\ cap' = CapIdle
    /\ cbSinceRead' = TRUE
    /\ delivered' = delivered \cup {DeviceBlock(nCallbacks + 1)}
    /\ UNCHANGED << pc, streamActive, timerActive, fft_size, upc, filtered,
                    fft_data, timeCurve, freqBars, avgBars, updateResult,
                    designed, signal, sigPos, streamOut, readBlock, readRef,
                    prevRead >>

(* audio_callback (lines 91-92): self.timeSignal = indata[:, 0] *)
audio_callback ==
    /\ BlockReady
    /\ timeSignal' = nCallbacks + 1
    /\ slotMem' = DeviceBlock(nCallbacks + 1)
    /\ nCallbacks' = nCallbacks + 1
    /\ cap' = CapIdle
    /\ cbSinceRead' = TRUE
    /\ delivered' = delivered \cup {DeviceBlock(nCallbacks + 1)}
    /\ UNCHANGED << pc, streamActive, timerActive, fft_size, upc, filtered,
                    fft_data, timeCurve, freqBars, avgBars, updateResult,
                    designed, signal, sigPos, streamOut, readBlock, readRef,
                    prevRead >>

-----------------------------------------------------------------------------
(* update (lines 94-123), called by the timer while the event loop runs.    *)
(* It reads self.timeSignal twice: for the length test of line 96 and for   *)
(* the filter of line 100; the callback thread can run in between.          *)

(* lines 96-97 *)
update_check ==
    /\ pc = "exec"
    /\ timerActive
    /\ upc = "idle"
    /\ IF Len(slotMem) = 0
       THEN updateResult' = "returned" /\ upc' = upc
       ELSE updateResult' = updateResult /\ upc' = "checked"
    /\ UNCHANGED << pc, streamActive, timerActive, fft_size, timeSignal, slotMem,
                    cap, nCallbacks, filtered, fft_data, timeCurve, freqBars,
                    avgBars, designed, signal, sigPos, streamOut, readBlock,
                    readRef, prevRead, cbSinceRead, delivered >>

(* lines 100-123 *)
update_process ==
    /\ upc = "checked"
    /\ \E f \in {apply_filter(slotMem, notch_filter)} :
       \E d \in {rfft_abs(f, fft_size)} :
          /\ filtered' = f
          /\ fft_data' = d
          /\ timeCurve' = [i \in 1..Len(f) |-> FMul(timeScale, f[i])]
          /\ freqBars' = SubSeq(d, 1, Min(30, Len(d)))
          /\ avgBars' = avg_heights(freqs, d)
    /\ updateResult' = "ok"
    /\ upc' = "idle"
    /\ readBlock' = slotMem
    /\ readRef' = timeSignal
    /\ prevRead' = IF updateResult = "ok"
                   THEN [valid |-> ~cbSinceRead, block |-> readBlock,
                         out |-> << timeCurve, freqBars, avgBars >>]
                   ELSE NoRead
    /\ cbSinceRead' = FALSE
    /\ UNCHANGED << pc, streamActive, timerActive, fft_size, timeSignal, slotMem,
                    cap, nCallbacks, designed, signal, sigPos, streamOut,
                    delivered >>

update == update_check \/ update_process

Next ==
    \/ run
    \/ run_returns
    \/ CaptureBegin
    \/ CaptureWrite
    \/ audio_callback
    \/ update

Spec == Init /\ [][Next]_vars

-----------------------------------------------------------------------------
(* update as a function of the block and the transform size: the event loop *)
(* runs, the device is silent, self.timeSignal holds a block drawn from     *)
(* TestBlocks and self.fft_size a size drawn from FftSizes.                 *)

BlockLengths == {0, 1, timeLength, FFT_SIZE, FFT_SIZE + ExtraLen}

BlockShapes == {"zero", "dc", "impulse", "alternating", "nan_first", "nan_last"}

ShapedBlock(shape, len) ==
    [i \in 1..len |->
        CASE shape = "zero" -> 0
          [] shape = "dc" -> Amp
          [] shape = "impulse" -> IF i = 1 THEN 2 * Amp ELSE 0
          [] shape = "alternating" -> IF i % 2 = 1 THEN Amp ELSE -Amp
          [] shape = "nan_first" -> IF i = 1 THEN NaN ELSE Amp
          [] shape = "nan_last" -> IF i = len THEN NaN ELSE Amp]

TestBlocks == {ShapedBlock(sh, len) : sh \in BlockShapes, len \in BlockLengths}

FftSizes == {16, FFT_SIZE}

InitUpdate ==
    /\ Constructed
    /\ fft_size \in FftSizes
    /\ slotMem \in TestBlocks
    /\ delivered = {slotMem}

(* The event loop is entered with no capture running. *)
exec_ ==
    /\ pc = "init"
    /\ pc' = "exec"
    /\ UNCHANGED << streamActive, timerActive, fft_size, timeSignal, slotMem,
                    cap, nCallbacks, upc, filtered, fft_data, timeCurve,
                    freqBars, avgBars, updateResult, designed, signal, sigPos,
                    streamOut, readBlock, readRef, prevRead, cbSinceRead,
                    delivered >>

NextUpdate == exec_ \/ update

SpecUpdate == InitUpdate /\ [][NextUpdate]_vars

-----------------------------------------------------------------------------
(* apply_filter over the consecutive blocks of a signal: what update's call *)
(* of line 100 does to the blocks of a stream, one call per block.          *)

SampleValues == {0, 4 * Amp, -4 * Amp}

Signals == UNION {[1..n -> SampleValues] : n \in 1..MaxSigLen}

InitFilter ==
    /\ Constructed
    /\ fft_size = FFT_SIZE
    /\ slotMem = Zeros(timeLength)
    /\ delivered = {Zeros(timeLength)}

(* A signal arrives. *)
SignalStarts ==
    /\ signal = <<>>
    /\ signal' \in Signals
    /\ UNCHANGED << pc, streamActive, timerActive, fft_size, timeSignal, slotMem,
                    cap, nCallbacks, upc, filtered, fft_data, timeCurve,
                    freqBars, avgBars, updateResult, designed, sigPos,
                    streamOut, readBlock, readRef, prevRead, cbSinceRead,
                    delivered >>

(* The next len samples are one block: filtered = self.apply_filter(block, self.notch_filter) *)
FilterBlock ==
    /\ sigPos < Len(signal)
    /\ \E len \in 1..(Len(signal) - sigPos) :
          /\ streamOut' = streamOut \o
                 apply_filter(SubSeq(signal, sigPos + 1, sigPos + len), notch_filter)
          /\ sigPos' = sigPos + len
    /\ UNCHANGED << pc, streamActive, timerActive, fft_size, timeSignal, slotMem,
                    cap, nCallbacks, upc, filtered, fft_data, timeCurve,
                    freqBars, avgBars, updateResult, designed, signal,
                    readBlock, readRef, prevRead, cbSinceRead, delivered >>

NextFilter == SignalStarts \/ FilterBlock

SpecFilter == InitFilter /\ [][NextFilter]_vars

-----------------------------------------------------------------------------
(* The two designers called with arbitrary parameters. *)

NotchFreqs == {-1, 0, 1, notch_freq, 127, 128, 129, 200}

Centers == {-1, 0, 1, alphaCenter, betaCenter, 64, 100, 127, 128, 200}

Bandwidths == {-2, 0, 1, alphaBandwidth, 24, 48, 56, 128, 254, 300}

CallCreateNotch ==
    /\ \E f \in NotchFreqs : \E o \in create_notch_filter(f, fs) :
          designed' = Design("create_notch_filter", <<f, fs>>, o)
    /\ UNCHANGED << pc, streamActive, timerActive, fft_size, timeSignal, slotMem,
                    cap, nCallbacks, upc, filtered, fft_data, timeCurve,
                    freqBars, avgBars, updateResult, signal, sigPos, streamOut,
                    readBlock, readRef, prevRead, cbSinceRead, delivered >>

CallCreateBandpass ==
    /\ \E c \in Centers : \E bw \in Bandwidths : \E o \in create_bandpass(c, bw, fs) :
          designed' = Design("create_bandpass", <<c, bw, fs>>, o)
    /\ UNCHANGED << pc, streamActive, timerActive, fft_size, timeSignal, slotMem,
                    cap, nCallbacks, upc, filtered, fft_data, timeCurve,
                    freqBars, avgBars, updateResult, signal, sigPos, streamOut,
                    readBlock, readRef, prevRead, cbSinceRead, delivered >>

NextDesign == CallCreateNotch \/ CallCreateBandpass

SpecDesign == InitFilter /\ [][NextDesign]_vars

-----------------------------------------------------------------------------
(* Properties.                                                              *)

Abs(x) == IF x < 0 THEN -x ELSE x

\* C1 (fails on the code). Streaming continuity: the outputs of the
\* apply_filter calls on the consecutive blocks of a signal, concatenated,
\* equal (within one unit of rounding) the output of one apply_filter call on
\* the whole signal, as far as the blocks reach.
C1_StreamingContinuity ==
    \A i \in 1..Len(streamOut) :
        Abs(streamOut[i] - apply_filter(signal, notch_filter)[i]) <= 1

\* C2 (fails on the code). No torn read: the block an update call processed
\* is the initial all-zero block or a block handed to one audio_callback call.
C2_NoTornRead == updateResult = "ok" => readBlock \in delivered

\* C3 (fails on the code). Read stability: when no audio_callback ran between
\* the reads of two successive update calls, the two calls read the same
\* samples and gave the displays the same waveform, spectrum and band averages.
C3_ReadStability ==
    prevRead.valid =>
        /\ prevRead.block = readBlock
        /\ prevRead.out = << timeCurve, freqBars, avgBars >>

ClaimBands ==
    << [name |-> "Delta", low |-> 0, high |-> 4],
       [name |-> "Theta", low |-> 4, high |-> 8],
       [name |-> "Alpha", low |-> 8, high |-> 12],
       [name |-> "LowBeta", low |-> 12, high |-> 20],
       [name |-> "HighBeta", low |-> 20, high |-> 30],
       [name |-> "Gamma", low |-> 30, high |-> 45] >>

BinsIn(band) ==
    {k \in 1..(fft_size \div 2 + 1) :
        /\ band.low * fft_size <= (k - 1) * fs
        /\ (k - 1) * fs <= band.high * fft_size}

SetSum(data, S) ==
    LET F[T \in SUBSET (1..Len(data))] ==
            IF T = {} THEN 0
            ELSE LET k == CHOOSE x \in T : TRUE
                 IN  data[k] + F[T \ {k}]
    IN  F[S]

\* C5. Band aggregation: for a finite spectrum, the i-th value update gives
\* the band-average bars is the arithmetic mean (sum over count) of the
\* magnitudes of exactly the bins whose frequency lies in the closed interval
\* of the i-th of Delta, Theta, Alpha, LowBeta, HighBeta, Gamma.
C5_BandAggregation ==
    (updateResult = "ok" /\ ~HasNaN(fft_data)) =>
        /\ Len(avgBars) = 6
        /\ \A i \in 1..6 :
              BinsIn(ClaimBands[i]) # {} =>
                 avgBars[i] = [num |-> SetSum(fft_data, BinsIn(ClaimBands[i])),
                               den |-> Cardinality(BinsIn(ClaimBands[i]))]

\* C5 witness: update averaged a spectrum of the 256-point transform that is
\* not flat; Delta has its 5 bins and Gamma its 16.
C5_Witness ==
    /\ updateResult = "ok"
    /\ fft_size = FFT_SIZE
    /\ ~HasNaN(fft_data)
    /\ avgBars[1].den = 5
    /\ avgBars[6].den = 16
    /\ avgBars[1].num > 0
    /\ avgBars[1].num * avgBars[6].den # avgBars[6].num * avgBars[1].den

ValidDesign ==
    IF designed.fn = "create_notch_filter"
    THEN 0 < designed.args[1] /\ 2 * designed.args[1] < designed.args[2]
    ELSE /\ 0 < designed.args[1]
         /\ 2 * designed.args[1] < designed.args[3]
         /\ 0 < designed.args[2]
         /\ designed.args[2] < 2 * designed.args[1]
         /\ designed.args[2] < designed.args[3] - 2 * designed.args[1]

\* C7 (fails on the code). A design call with parameters outside the valid
\* ranges fails with InvalidFilterParameters and returns no coefficient pair.
C7_InvalidRejected == ~ValidDesign => designed.outcome = "InvalidFilterParameters"

NonFiniteComputed ==
    \/ HasNaN(filtered)
    \/ HasNaN(fft_data)
    \/ \E i \in 1..Len(avgBars) : IsNaNMean(avgBars[i])

NonFiniteDisplayed ==
    \/ HasNaN(timeCurve)
    \/ HasNaN(freqBars)
    \/ \E i \in 1..Len(avgBars) : IsNaNMean(avgBars[i])

\* C8 (fails on the code). Non-finite results stop the cycle: an update call
\* whose filtering, spectrum or band averaging gave a non-finite value reports
\* ProcessingFailure, and no non-finite value reaches the displays.
C8_NonFiniteStops ==
    /\ NonFiniteComputed => updateResult = "ProcessingFailure"
    /\ ~NonFiniteDisplayed

\* C9 (fails on the code). Clean shutdown: when run has returned, the capture
\* stream it started is stopped.
C9_CleanShutdown == pc = "done" => ~streamActive

\* C10. Fixed spectrum shape: for a non-empty block of any length the
\* transform's input is the filtered block cut or zero-padded to fft_size
\* samples, and the magnitude sequence has fft_size/2 + 1 entries, as many as
\* self.freqs (129 for fft_size = 256), so the 30-bin slice and each band mask
\* index existing bins.
C10_SpectrumShape ==
    updateResult = "ok" =>
        /\ Len(FftInput(filtered, fft_size)) = fft_size
        /\ \A i \in 1..fft_size :
              FftInput(filtered, fft_size)[i] =
                 (IF i <= Len(filtered) THEN filtered[i] ELSE 0)
        /\ Len(fft_data) = fft_size \div 2 + 1
        /\ Len(fft_data) = Len(freqs)
        /\ fft_size = 256 => (Len(fft_data) = 129 /\ Len(freqBars) = 30)
        /\ \A i \in 1..Len(bands) :
              Len(BandMask(freqs, bands[i][1], bands[i][2])) = Len(fft_data)

\* C10 witness: update transformed a block longer than the transform size.
C10_Witness ==
    /\ updateResult = "ok"
    /\ fft_size = FFT_SIZE
    /\ Len(readBlock) > FFT_SIZE
    /\ Len(filtered) = Len(readBlock)

====
